---- MODULE Spec2Model ----
(***************************************************************************)
(* A model of ipftrace.py: the assembly of the probe program and of the    *)
(* compile-time filter constants (IPFTracer), the decoding of the perf     *)
(* buffer records (run_tracing.handle_event) and the flow table of the     *)
(* tracing loop (run_tracing).                                             *)
(*                                                                         *)
(* Conventions.  A Python str is a TLA+ string, str(int) is ToString, a    *)
(* list is a sequence (1-based here, 0-based in the source), a dict is a   *)
(* function, and the insertion-ordered dict `flows` is a sequence of       *)
(* [key, val] rows.  The host is little-endian (the platforms bcc's kprobe *)
(* programs are written for), so socket.htons/ntohs/ntohl swap bytes and a *)
(* c_uint32 is loaded least significant byte first.                        *)
(***************************************************************************)
EXTENDS Integers, Sequences, FiniteSets, TLC

VARIABLES
    functions,    \* IPFTracer.functions: the catalog, groups in file order
    args,         \* IPFTracer.args: the filter keyword arguments
    id_to_ename,  \* IPFTracer.id_to_ename
    probes,       \* the last text build_probes returned
    opts,         \* the cflags build_opts returned in run_tracing
    pc,           \* where main/run_tracing stands
    flows,        \* run_tracing's dict `flows`, in insertion order
    event,        \* the record the last handle_event call was given
    raised,       \* the exception that call left through, or "none"
    rendered,     \* the rows the last pass of the print loop wrote
    cycle,        \* completed passes of the `while 1` loop
    observed,     \* history: the (flow, name) pairs handle_event decoded
    nHandled,     \* history: number of handle_event calls
    fired         \* history: index of the stub that produced `event`, or 0

vars == <<functions, args, id_to_ename, probes, opts, pc, flows, event,
          raised, rendered, cycle, observed, nHandled, fired>>

----------------------------------------------------------------------------
(* Bounds of the model *)

\* number of handle_event calls explored in the tracing loop
MaxEvents == 3
\* number of passes of the tracing loop explored
MaxCycles == 2
\* largest event_id of the records drawn in the tracing loop
MaxEventId == 2
\* number of functions of the large catalog (one more than a byte can tag)
WideCatalogSize == 257
\* the octets IPv4 sample addresses are made of: k * OctetStride mod 256
MaxOctetSample == 3
OctetStride == 85
\* the catalogs drawn for probe assembly: groups, functions per group
MaxGroups == 2
MaxGroupSize == 2
\* number of probe firings explored after assembly
MaxFires == 1

----------------------------------------------------------------------------
(* Byte order *)

\* socket.htons / socket.ntohs on a little-endian host: swap the two bytes
swap16(x) == (x % 256) * 256 + ((x \div 256) % 256)
htons(x) == swap16(x)
ntohs(x) == swap16(x)

\* A 32-bit unsigned integer n is the pair <<n \div 65536, n % 65536>> of its
\* 16-bit halves (TLC's integers are 32-bit signed).

\* socket.ntohl on a little-endian host: reverse the four bytes
ntohl(x) == << swap16(x[2]), swap16(x[1]) >>

\* int.from_bytes(a, byteorder="little") of four bytes
from_bytes_little(a) == << a[4] * 256 + a[3], a[2] * 256 + a[1] >>

\* the value ctypes reads from a c_uint32 field held in bytes b[off+1..off+4]
load_uint32(b, off) == << b[off + 4] * 256 + b[off + 3], b[off + 2] * 256 + b[off + 1] >>

\* the bytes a c_uint32 of value v occupies in memory
store_uint32(v) == << v[2] % 256, v[2] \div 256, v[1] % 256, v[1] \div 256 >>

\* str(n) of a 32-bit unsigned integer: its decimal digits, by long division
RECURSIVE str_uint32(_)
str_uint32(v) ==
    LET carry == (v[1] % 10) * 65536 + v[2]
        q == << v[1] \div 10, carry \div 10 >>
    IN  IF q = <<0, 0>> THEN ToString(carry % 10)
        ELSE str_uint32(q) \o ToString(carry % 10)

----------------------------------------------------------------------------
(* ipaddress *)

\* str(ipaddress.IPv4Address(<four octets>)): dotted decimal
dotted(o) ==
    ToString(o[1]) \o "." \o ToString(o[2]) \o "." \o ToString(o[3])
      \o "." \o ToString(o[4])

\* str(ipaddress.IPv4Address(n)) for an integer n: most significant octet first
IPv4Address_from_int(n) ==
    dotted(<< n[1] \div 256, n[1] % 256, n[2] \div 256, n[2] % 256 >>)

SampleOctet(k) == (k * OctetStride) % 256
SampleOctets == { SampleOctet(k) : k \in 0..MaxOctetSample }
SampleAddr4 == { <<a, b, c, d>> : a \in SampleOctets, b \in SampleOctets, c \in SampleOctets, d \in SampleOctets }
Addr4Texts == { dotted(o) : o \in SampleAddr4 }

\* ipaddress.IPv4Address(text).packed: the octets whose dotted form is text
IPv4Address_packed(text) == CHOOSE o \in SampleAddr4 : dotted(o) = text

\* IPv6 sample addresses with their canonical text
Zeros(n) == [i \in 1..n |-> 0]
V6Table ==
    << [text |-> "::1", packed |-> Zeros(15) \o <<1>>],
       [text |-> "fe80::2", packed |-> <<254, 128>> \o Zeros(13) \o <<2>>] >>
Addr6Texts == { V6Table[i].text : i \in DOMAIN V6Table }

\* ipaddress.IPv6Address(text).packed
IPv6Address_packed(text) ==
    V6Table[CHOOSE i \in DOMAIN V6Table : V6Table[i].text = text].packed

\* str(ipaddress.IPv6Address(bytes))
IPv6Address_from_bytes(b) ==
    V6Table[CHOOSE i \in DOMAIN V6Table : V6Table[i].packed = b].text

----------------------------------------------------------------------------
(* Protocol name tables: init_ethertypes_mapping, init_protocol_mapping *)

\* the lines of /etc/ethertypes that are not comments: name, hexadecimal type
EtherTypesFile ==
    << [name |-> "IPv4", ethertype |-> 2048],
       [name |-> "ARP", ethertype |-> 2054],
       [name |-> "IPv6", ethertype |-> 34525] >>

\* the lines of /etc/protocols that are not comments: name, number, alias
ProtocolsFile ==
    << <<"icmp", "1", "ICMP">>, <<"tcp", "6", "TCP">>, <<"udp", "17", "UDP">> >>

EmptyDict == [k \in {} |-> ""]

RECURSIVE ethertypes_fold(_, _)
ethertypes_fold(lines, m) ==
    IF lines = <<>> THEN m
    ELSE LET spl == Head(lines)
             ident == ToString(htons(spl.ethertype))
         IN  ethertypes_fold(Tail(lines),
                 [to_id |-> (spl.name :> ident) @@ m.to_id,
                  to_name |-> (ident :> spl.name) @@ m.to_name])

init_ethertypes_mapping ==
    ethertypes_fold(EtherTypesFile, [to_id |-> EmptyDict, to_name |-> EmptyDict])

L3_PROTO_TO_ID == init_ethertypes_mapping.to_id
ID_TO_L3_PROTO == init_ethertypes_mapping.to_name

RECURSIVE protocols_fold(_, _)
protocols_fold(lines, m) ==
    IF lines = <<>> THEN m
    ELSE LET spl == Head(lines)
         IN  protocols_fold(Tail(lines),
                 [to_id |-> (spl[3] :> spl[2]) @@ m.to_id,
                  to_name |-> (spl[2] :> spl[3]) @@ m.to_name])

init_protocol_mapping ==
    protocols_fold(ProtocolsFile, [to_id |-> EmptyDict, to_name |-> EmptyDict])

L4_PROTO_TO_ID == init_protocol_mapping.to_id
ID_TO_L4_PROTO == init_protocol_mapping.to_name

----------------------------------------------------------------------------
(* Probe assembly: IPFTracer.build_probes, IPFTracer.resolve_event_name *)

\* the stub build_probes generates for catalog entry e with the counter at eid
probe_stub(e, eid) ==
    [ handler |-> "kprobe__" \o e.name,
      params |-> <<"struct pt_regs *ctx">> \o e.args,
      event_data |-> <<eid>> ]

\* mutation: the counter starts again at 0 in every group
probes_of_events_restart(events, st) ==
    [ eid |-> Len(events),
      ret |-> st.ret \o [i \in DOMAIN events |-> probe_stub(events[i], i - 1)],
      id_to_ename |-> st.id_to_ename \o [i \in DOMAIN events |-> events[i].name] ]

\* the inner loop of build_probes, `for e in events`: the i-th entry is
\* reached with the counter at st.eid + i - 1
probes_of_events(events, st) ==
    [ eid |-> st.eid + Len(events),
      ret |-> st.ret \o [i \in DOMAIN events |-> probe_stub(events[i], st.eid + i - 1)],
      id_to_ename |-> st.id_to_ename \o [i \in DOMAIN events |-> events[i].name] ]

\* the outer loop of build_probes: `for group, events in self.functions.items()`
RECURSIVE probes_of_groups(_, _)
probes_of_groups(groups, st) ==
    IF groups = <<>> THEN st
    ELSE probes_of_groups(Tail(groups), probes_of_events(Head(groups).events, st))

\* build_probes: the stubs appended to the text of ipftrace.bpf.c, and
\* self.id_to_ename after the call (the call appends to the list it finds)
build_probes(fns, table) ==
    LET st == probes_of_groups(fns, [eid |-> 0, ret |-> <<>>, id_to_ename |-> table])
    IN  [ ret |-> [template |-> "ipftrace.bpf.c", stubs |-> st.ret],
          id_to_ename |-> st.id_to_ename ]

\* resolve_event_name: self.id_to_ename[eid], IndexError past the end
resolve_event_name(table, eid) ==
    IF eid < Len(table)
    THEN [exc |-> "none", name |-> table[eid + 1]]
    ELSE [exc |-> "IndexError", name |-> ""]

\* the value a c_uint8 field holds once x is stored in it
c_uint8(x) == x % 256

----------------------------------------------------------------------------
(* Filter constants: IPFTracer.build_*_opt, IPFTracer.build_opts *)

Ok(v) == [exc |-> "none", val |-> v]
KeyError == [exc |-> "KeyError", val |-> <<>>]

build_l3_protocol_opt(protocol) ==
    IF protocol = "any" THEN Ok(<<"-D", "L3_PROTOCOL_ANY">>)
    ELSE IF protocol \in DOMAIN L3_PROTO_TO_ID
         THEN Ok(<<"-D", "L3_PROTOCOL=" \o L3_PROTO_TO_ID[protocol]>>)
         ELSE KeyError

build_l4_protocol_opt(protocol) ==
    IF protocol = "any" THEN Ok(<<"-D", "L4_PROTOCOL_ANY">>)
    ELSE IF protocol \in DOMAIN L4_PROTO_TO_ID
         THEN Ok(<<"-D", "L4_PROTOCOL=" \o L4_PROTO_TO_ID[protocol]>>)
         ELSE KeyError

\* mutation: the packed address read in network byte order
inet_addr4_int_big(addr) ==
    LET a == IPv4Address_packed(addr)
    IN  << a[1] * 256 + a[2], a[3] * 256 + a[4] >>

\* the integer inet_addr4 prints: the packed address read little-endian
inet_addr4_int(addr) == from_bytes_little(IPv4Address_packed(addr))

inet_addr4(addr) == str_uint32(inet_addr4_int(addr))

build_addr4_opt(addr, direction) ==
    IF addr = "any" THEN Ok(<<"-D", direction \o "ADDRV4_ANY">>)
    ELSE Ok(<<"-D", direction \o "ADDRV4=" \o inet_addr4(addr)>>)

\* ",".join of the decimal form of each byte
RECURSIVE join_bytes(_)
join_bytes(p) ==
    IF Len(p) = 0 THEN ""
    ELSE IF Len(p) = 1 THEN ToString(p[1])
    ELSE ToString(p[1]) \o "," \o join_bytes(Tail(p))

inet_addr6(addr) == join_bytes(IPv6Address_packed(addr))

build_addr6_opt(addr, direction) ==
    IF addr = "any" THEN Ok(<<"-D", direction \o "ADDRV6_ANY">>)
    ELSE Ok(<<"-D", direction \o "ADDRV6=" \o inet_addr6(addr)>>)

\* mutation: the port is emitted without the test for "any"
build_port_opt_no_any(port, direction) ==
    Ok(<<"-D", direction \o "PORT=" \o port>>)

build_port_opt(port, direction) ==
    IF port = "any" THEN Ok(<<"-D", direction \o "PORT_ANY">>)
    ELSE Ok(<<"-D", direction \o "PORT=" \o port>>)

\* opts += <call>: the first call that raises ends build_opts
RECURSIVE concat_opts(_)
concat_opts(parts) ==
    IF parts = <<>> THEN Ok(<<>>)
    ELSE IF Head(parts).exc # "none" THEN Head(parts)
    ELSE LET rest == concat_opts(Tail(parts))
         IN  IF rest.exc # "none" THEN rest ELSE Ok(Head(parts).val \o rest.val)

build_opts(a) ==
    concat_opts(<< build_l3_protocol_opt(a.l3proto),
                   build_l4_protocol_opt(a.l4proto),
                   build_addr4_opt(a.saddr4, "S"),
                   build_addr4_opt(a.daddr4, "D"),
                   build_addr6_opt(a.saddr6, "S"),
                   build_addr6_opt(a.daddr6, "D"),
                   build_port_opt(a.sport, "S"),
                   build_port_opt(a.dport, "D") >>)

----------------------------------------------------------------------------
(* Event decoding and aggregation: run_tracing.handle_event *)

Range(q) == { q[i] : i \in DOMAIN q }

\* flows.get(flow, [])
flows_get(fl, flow) ==
    IF \E i \in DOMAIN fl : fl[i].key = flow
    THEN fl[CHOOSE i \in DOMAIN fl : fl[i].key = flow].val
    ELSE <<>>

\* flows[flow] = event_list: a key the dict holds keeps its position
flows_set(fl, flow, event_list) ==
    IF \E i \in DOMAIN fl : fl[i].key = flow
    THEN [i \in DOMAIN fl |->
             IF fl[i].key = flow THEN [key |-> flow, val |-> event_list] ELSE fl[i]]
    ELSE Append(fl, [key |-> flow, val |-> event_list])

\* mutation: the event name is appended without the membership test
record_always_append(fl, flow, event_name) ==
    flows_set(fl, flow, Append(flows_get(fl, flow), event_name))

\* the last four statements of handle_event
record(fl, flow, event_name) ==
    LET event_list == flows_get(fl, flow)
    IN  flows_set(fl, flow,
            IF event_name \in Range(event_list)
            THEN event_list
            ELSE Append(event_list, event_name))

\* the Flow(...) construction; ID_TO_L4_PROTO[...] raises KeyError on a miss
make_flow(ev, saddr, daddr) ==
    IF ToString(ev.l4_protocol) \in DOMAIN ID_TO_L4_PROTO
    THEN [ exc |-> "none",
           flow |-> [ l3_protocol |-> ID_TO_L3_PROTO[ToString(ev.l3_protocol)],
                      l4_protocol |-> ID_TO_L4_PROTO[ToString(ev.l4_protocol)],
                      saddr |-> saddr,
                      daddr |-> daddr,
                      sport |-> ntohs(ev.sport),
                      dport |-> ntohs(ev.dport) ] ]
    ELSE [ exc |-> "KeyError", flow |-> <<>> ]

Dropped(exc, fl) == [exc |-> exc, flows |-> fl, decoded |-> <<>>]

\* handle_event with the name table and the flow table it closes over:
\* the exception it leaves through, the flow table after it, and the
\* (flow, name) pair it decoded, if it got that far
handle_event(ev, table, fl) ==
    LET r == resolve_event_name(table, ev.event_id)
        v4 == ToString(ev.l3_protocol) = L3_PROTO_TO_ID["IPv4"]
        v6 == ToString(ev.l3_protocol) = L3_PROTO_TO_ID["IPv6"]
        saddr == IF v4 THEN IPv4Address_from_int(ntohl(load_uint32(ev.addrs, 0)))
                 ELSE IPv6Address_from_bytes(SubSeq(ev.addrs, 1, 16))
        daddr == IF v4 THEN IPv4Address_from_int(ntohl(load_uint32(ev.addrs, 4)))
                 ELSE IPv6Address_from_bytes(SubSeq(ev.addrs, 17, 32))
        f == make_flow(ev, saddr, daddr)
    IN  IF r.exc # "none" THEN Dropped(r.exc, fl)
        ELSE IF ~(v4 \/ v6) THEN Dropped("none", fl)
        ELSE IF f.exc # "none" THEN Dropped(f.exc, fl)
        ELSE [ exc |-> "none",
               flows |-> record(fl, f.flow, r.name),
               decoded |-> <<[flow |-> f.flow, name |-> r.name]>> ]

\* mutation: only the flow inserted last is printed
render_last_only(fl) ==
    IF fl = <<>> THEN <<>>
    ELSE << [ proto |-> fl[Len(fl)].key.l4_protocol,
              src |-> fl[Len(fl)].key.saddr,
              dst |-> fl[Len(fl)].key.daddr,
              events |-> fl[Len(fl)].val ] >>

\* the print loop of run_tracing: one line per item of `flows`
render(fl) ==
    [ i \in DOMAIN fl |->
        LET f == fl[i].key
        IN  [ proto |-> f.l4_protocol,
              src |-> f.saddr \o (IF f.sport # 0 THEN ":" \o ToString(f.sport) ELSE ""),
              dst |-> f.daddr \o (IF f.dport # 0 THEN ":" \o ToString(f.dport) ELSE ""),
              events |-> fl[i].val ] ]

----------------------------------------------------------------------------
(* Inputs *)

SkbArgs == <<"struct sk_buff *skb">>
Entry(n) == [name |-> n, args |-> SkbArgs]
Group(i, events) == [group |-> "g" \o ToString(i), events |-> events]

\* the catalogs the tracing loop is explored with
TraceCatalogs ==
    { << Group(1, <<Entry("f1")>>) >>,
      << Group(1, <<Entry("f1"), Entry("f2")>>) >>,
      << Group(1, <<Entry("f1")>>), Group(2, <<Entry("f2")>>) >> }

\* the catalogs probe assembly is explored with
FunctionNames == {"f1", "f2"}
GroupBodies == UNION { [1..k -> {Entry(n) : n \in FunctionNames}] : k \in 0..MaxGroupSize }
SmallCatalogs ==
    UNION { { [i \in 1..k |-> Group(i, body[i])] : body \in [1..k -> GroupBodies] }
            : k \in 0..MaxGroups }
WideCatalog ==
    << Group(1, [i \in 1..WideCatalogSize |-> Entry("fn" \o ToString(i - 1))]) >>

SampleSrc4 == dotted(<<SampleOctet(1), SampleOctet(0), SampleOctet(2), SampleOctet(3)>>)
SampleDst4 == dotted(<<SampleOctet(3), SampleOctet(2), SampleOctet(1), SampleOctet(0)>>)

AnyArgs ==
    [ l3proto |-> "any", l4proto |-> "any", saddr4 |-> "any", daddr4 |-> "any",
      saddr6 |-> "any", daddr6 |-> "any", sport |-> "any", dport |-> "any" ]

\* "any" or one concrete value on every dimension, protocol names that the
\* tables lack included ("4" and "6" are what --l3proto accepts)
ChoiceArgs ==
    [ l3proto : {"any", "IPv4", "4"}, l4proto : {"any", "TCP", "nosuch"},
      saddr4 : {"any", SampleSrc4}, daddr4 : {"any", SampleDst4},
      saddr6 : {"any", "::1"}, daddr6 : {"any", "fe80::2"},
      sport : {"any", "1234"}, dport : {"any", "0"} ]

\* every sample address as the source or the destination filter
Addr4Args ==
    { [AnyArgs EXCEPT !.saddr4 = a] : a \in Addr4Texts }
      \cup { [AnyArgs EXCEPT !.daddr4 = a] : a \in Addr4Texts }

FilterSpecs == ChoiceArgs \cup Addr4Args

\* the union `addrs` of a record: 32 bytes
V4Addrs(s, d) == s \o d \o Zeros(24)
V6Addrs(s, d) == s \o d

RawEvent(eid, l4, l3, addrs, sport, dport) ==
    [ event_id |-> eid, l4_protocol |-> l4, l3_protocol |-> l3, addrs |-> addrs,
      sport |-> sport, dport |-> dport ]

\* the shapes of the records the probe runtime delivers: the fields are as
\* the probe wrote them, multi-byte integers in network byte order
EventShapes ==
    { RawEvent(0, 6, htons(2048), V4Addrs(<<10, 0, 0, 1>>, <<10, 0, 0, 2>>),
               htons(1234), htons(80)),
      RawEvent(0, 1, htons(2048), V4Addrs(<<10, 0, 0, 1>>, <<10, 0, 0, 2>>), 0, 0),
      RawEvent(0, 17, htons(34525),
               V6Addrs(V6Table[1].packed, V6Table[2].packed), htons(53), htons(53)),
      RawEvent(0, 6, htons(2054), V4Addrs(<<10, 0, 0, 1>>, <<10, 0, 0, 2>>), 0, 0),
      RawEvent(0, 253, htons(2048), V4Addrs(<<10, 0, 0, 1>>, <<10, 0, 0, 2>>),
               htons(1234), htons(80)) }

RawEvents == { [s EXCEPT !.event_id = i] : s \in EventShapes, i \in 0..MaxEventId }

NoEvent == RawEvent(0, 0, 0, Zeros(32), 0, 0)

\* the record the stub with index i (from 1) sends for a TCP/IPv4 packet:
\* `struct event_data e = { eid }` stores eid in the one-byte event_id
StubEvent(text, i) ==
    RawEvent(c_uint8(text.stubs[i].event_data[1]), 6, htons(2048),
             V4Addrs(<<10, 0, 0, 1>>, <<10, 0, 0, 2>>), htons(1234), htons(80))

\* a record of a packet that passes the filter `a`: the address fields hold
\* the constants build_opts defined where the filter names an address
FilterEvent(a) ==
    RawEvent(0, 6, htons(2048),
             store_uint32(IF a.saddr4 = "any" THEN from_bytes_little(<<10, 0, 0, 1>>)
                          ELSE inet_addr4_int(a.saddr4))
               \o store_uint32(IF a.daddr4 = "any" THEN from_bytes_little(<<10, 0, 0, 2>>)
                               ELSE inet_addr4_int(a.daddr4))
               \o Zeros(24),
             htons(1234), htons(80))

----------------------------------------------------------------------------
(* The program *)

InitWith(catalogs, filters) ==
    /\ functions \in catalogs
    /\ args \in filters
    /\ id_to_ename = <<>>
    /\ probes = [template |-> "", stubs |-> <<>>]
    /\ opts = <<>>
    /\ pc = "start"
    /\ flows = <<>>
    /\ event = NoEvent
    /\ raised = "none"
    /\ rendered = <<>>
    /\ cycle = 0
    /\ observed = <<>>
    /\ nHandled = 0
    /\ fired = 0

\* IPFTracer.__init__ (main): id_to_ename = [], read_functions, build_probes
Construct ==
    /\ pc = "start"
    /\ LET b == build_probes(functions, <<>>)
       IN  /\ id_to_ename' = b.id_to_ename
           /\ probes' = b.ret
    /\ pc' = "constructed"
    /\ UNCHANGED <<functions, args, opts, flows, event, raised, rendered, cycle,
                   observed, nHandled, fired>>

\* main with --list: list_functions, exit(0)
ListFunctions ==
    /\ pc = "constructed"
    /\ pc' = "exit"
    /\ UNCHANGED <<functions, args, id_to_ename, probes, opts, flows, event,
                   raised, rendered, cycle, observed, nHandled, fired>>

\* run_tracing up to the first perf_buffer_poll: build_probes, build_opts
\* (an unknown protocol name raises KeyError and ends the program), flows = {}
RunTracing ==
    /\ pc = "constructed"
    /\ LET b == build_probes(functions, id_to_ename)
           o == build_opts(args)
       IN  /\ id_to_ename' = b.id_to_ename
           /\ probes' = b.ret
           /\ raised' = o.exc
           /\ opts' = o.val
           /\ pc' = IF o.exc = "none" THEN "poll" ELSE "aborted"
    /\ flows' = <<>>
    /\ UNCHANGED <<functions, args, event, rendered, cycle, observed, nHandled, fired>>

\* one call of handle_event by perf_buffer_poll.  An exception leaves
\* handle_event; the callback boundary of the probe runtime either discards
\* it (the poll goes on) or lets it end the program.
Handle(ev, stub) ==
    /\ pc = "poll"
    /\ LET h == handle_event(ev, id_to_ename, flows)
       IN  /\ flows' = h.flows
           /\ raised' = h.exc
           /\ observed' = observed \o h.decoded
           /\ pc' \in (IF h.exc = "none" THEN {"poll"} ELSE {"poll", "aborted"})
    /\ event' = ev
    /\ nHandled' = nHandled + 1
    /\ fired' = stub
    /\ UNCHANGED <<functions, args, id_to_ename, probes, opts, rendered, cycle>>

HandleEvent ==
    /\ nHandled < MaxEvents
    /\ \E ev \in RawEvents : Handle(ev, 0)

\* perf_buffer_poll returns and the print loop writes the table
PollReturn ==
    /\ pc = "poll"
    /\ cycle < MaxCycles
    /\ rendered' = render(flows)
    /\ cycle' = cycle + 1
    /\ UNCHANGED <<functions, args, id_to_ename, probes, opts, pc, flows, event,
                   raised, observed, nHandled, fired>>

\* KeyboardInterrupt out of perf_buffer_poll: exit(0)
Interrupt ==
    /\ pc = "poll"
    /\ pc' = "exit"
    /\ UNCHANGED <<functions, args, id_to_ename, probes, opts, flows, event,
                   raised, rendered, cycle, observed, nHandled, fired>>

\* a kprobe stub fires for a packet and its record is handled
ProbeFire ==
    /\ nHandled < MaxFires
    /\ \E i \in DOMAIN probes.stubs : Handle(StubEvent(probes, i), i)

\* a packet that passes the filter is reported by the first stub
FilteredPacket ==
    /\ nHandled < MaxFires
    /\ Handle(FilterEvent(args), 1)

Init == InitWith(TraceCatalogs, {AnyArgs, [AnyArgs EXCEPT !.l3proto = "4"]})
Next == Construct \/ ListFunctions \/ RunTracing \/ HandleEvent \/ PollReturn \/ Interrupt
Spec == Init /\ [][Next]_vars

InitAssemble == InitWith(SmallCatalogs \cup {WideCatalog}, {AnyArgs})
NextAssemble == Construct \/ RunTracing \/ ProbeFire
SpecAssemble == InitAssemble /\ [][NextAssemble]_vars

InitFilter == InitWith({ << Group(1, <<Entry("f1")>>) >> }, FilterSpecs)
NextFilter == Construct \/ RunTracing \/ FilteredPacket \/ PollReturn
SpecFilter == InitFilter /\ [][NextFilter]_vars

----------------------------------------------------------------------------
(* Properties *)

\* the catalog in the order of its traversal: groups, then functions
RECURSIVE Flatten(_)
Flatten(groups) ==
    IF groups = <<>> THEN <<>> ELSE Head(groups).events \o Flatten(Tail(groups))

CatalogSize == Len(Flatten(functions))

Handled == nHandled' = nHandled + 1

SupportedL3(ev) ==
    ToString(ev.l3_protocol) \in {L3_PROTO_TO_ID["IPv4"], L3_PROTO_TO_ID["IPv6"]}

NoDuplicates(q) == \A i, j \in DOMAIN q : q[i] = q[j] => i = j

\* the first position in `observed` of name n for flow f
FirstSeen(f, n) ==
    CHOOSE k \in DOMAIN observed :
        /\ observed[k] = [flow |-> f, name |-> n]
        /\ \A m \in 1..(k - 1) : observed[m] # [flow |-> f, name |-> n]

C1_Table ==
    /\ \A i, j \in DOMAIN flows : flows[i].key = flows[j].key => i = j
    /\ { flows[i].key : i \in DOMAIN flows } = { observed[k].flow : k \in DOMAIN observed }
    /\ \A i \in DOMAIN flows :
          LET f == flows[i].key
              e == flows[i].val
          IN  /\ NoDuplicates(e)
              /\ Range(e) = { observed[k].name : k \in { m \in DOMAIN observed : observed[m].flow = f } }
              /\ \A a, b \in DOMAIN e : a < b => FirstSeen(f, e[a]) < FirstSeen(f, e[b])

C1_Repeat ==
    (Handled /\ Len(observed') = Len(observed) + 1
       /\ observed'[Len(observed')] \in Range(observed))
    => flows' = flows

\* C1: the flow table holds one row per flow decoded so far, the row's
\* sequence is the flow's function names, each once, in the order they were
\* first seen; and a (flow, name) pair decoded before leaves the table as it is.
C1_FlowTable == [] C1_Table /\ [][C1_Repeat]_vars

\* C1 witness: one flow seen from f1, then f2, then f1 again
C1_Witness ==
    /\ Len(flows) = 1
    /\ flows[1].val = <<"f1", "f2">>
    /\ Len(observed) = 3
    /\ observed[3].name = "f1"

\* C2: a record whose l3_protocol is neither the IPv4 nor the IPv6 id,
\* whatever its event_id, leaves the flow table as it was and raises nothing.
C2_UnsupportedL3Dropped ==
    [][ (Handled /\ ~SupportedL3(event')) => (flows' = flows /\ raised' = "none") ]_vars

\* C3: a record whose event_id is not the id of a catalog entry raises
\* nothing, leaves the flow table as it was, and the poll goes on.
C3_UnknownEventIdDropped ==
    [][ (Handled /\ event'.event_id >= CatalogSize)
        => (raised' = "none" /\ flows' = flows /\ pc' = "poll") ]_vars

\* C4: a record with a catalog event_id and a supported l3_protocol whose
\* l4_protocol has no entry in the L4 table raises nothing, leaves the flow
\* table as it was, and the poll goes on.
C4_UnknownL4Dropped ==
    [][ (Handled /\ event'.event_id < CatalogSize /\ SupportedL3(event')
           /\ ToString(event'.l4_protocol) \notin DOMAIN ID_TO_L4_PROTO)
        => (raised' = "none" /\ flows' = flows /\ pc' = "poll") ]_vars

\* C5: the stub of the i-th function of the traversal (groups in order, then
\* functions in order) carries the event id i, counted from 0, and
\* resolve_event_name(i) is that function's name.
C5_EventIdIsIndex ==
    pc # "start" =>
        LET flat == Flatten(functions)
        IN  /\ Len(probes.stubs) = Len(flat)
            /\ \A i \in DOMAIN flat :
                  /\ probes.stubs[i].handler = "kprobe__" \o flat[i].name
                  /\ probes.stubs[i].event_data = <<i - 1>>
                  /\ resolve_event_name(id_to_ename, i - 1)
                       = [exc |-> "none", name |-> flat[i].name]

\* C5 witness: a catalog of two groups of two functions, assembled twice
C5_Witness ==
    /\ pc = "poll"
    /\ Len(functions) = 2
    /\ Len(functions[1].events) = 2
    /\ Len(functions[2].events) = 2
    /\ functions[1].events[1].name # functions[2].events[1].name

\* C6: after construction and any further build_probes call the probe text
\* is the same and the id-to-name table has exactly one entry per catalog
\* entry, so that no event_id from the catalog size on resolves to a name.
C6_TableInLockstep ==
    /\ [] (pc # "start" =>
             /\ Len(id_to_ename) = CatalogSize
             /\ \A eid \in CatalogSize..255 :
                   resolve_event_name(id_to_ename, eid).exc # "none")
    /\ [][ pc # "start" => probes' = probes ]_vars

\* the addresses a filter names, as the decoder prints them for a packet
\* that carries the filter's constants
C7_Decoded(filter, printed) == filter # "any" => printed = filter

\* C7: an IPv4 address encoded by inet_addr4, carried in the v4 address
\* field of a record and decoded by handle_event, is printed as it was given.
C7_Addr4RoundTrip ==
    (fired = 1 /\ raised = "none" /\ flows # <<>>) =>
        /\ C7_Decoded(args.saddr4, flows[1].key.saddr)
        /\ C7_Decoded(args.daddr4, flows[1].key.daddr)

\* C7 witness: a source address whose octets differ, decoded
C7_Witness ==
    /\ fired = 1
    /\ flows # <<>>
    /\ args.saddr4 = SampleSrc4
    /\ flows[1].key.saddr = SampleSrc4

DimSymbol ==
    << "L3_PROTOCOL", "L4_PROTOCOL", "SADDRV4", "DADDRV4", "SADDRV6", "DADDRV6",
       "SPORT", "DPORT" >>
DimValue(a) ==
    << a.l3proto, a.l4proto, a.saddr4, a.daddr4, a.saddr6, a.daddr6, a.sport, a.dport >>

\* the texts an exact-match constant can have in this model
ConstantTexts ==
    { L3_PROTO_TO_ID[n] : n \in DOMAIN L3_PROTO_TO_ID }
      \cup { L4_PROTO_TO_ID[n] : n \in DOMAIN L4_PROTO_TO_ID }
      \cup { str_uint32(from_bytes_little(o)) : o \in SampleAddr4 }
      \cup { join_bytes(V6Table[i].packed) : i \in DOMAIN V6Table }
      \cup { "1234", "0" }

NamesResolve(a) ==
    /\ a.l3proto \in {"any"} \cup DOMAIN L3_PROTO_TO_ID
    /\ a.l4proto \in {"any"} \cup DOMAIN L4_PROTO_TO_ID

\* C8: when the protocol names resolve, build_opts returns one definition
\* per dimension, in the order l3proto, l4proto, saddr4, daddr4, saddr6,
\* daddr6, sport, dport, and a dimension's definition is the accept-any
\* marker exactly when the dimension's value is "any".
C8_OneDefinitionPerDimension ==
    (pc \notin {"start", "constructed"} /\ NamesResolve(args)) =>
        /\ pc # "aborted"
        /\ Len(opts) = 16
        /\ \A k \in 1..8 :
              /\ opts[2 * k - 1] = "-D"
              /\ \/ opts[2 * k] = DimSymbol[k] \o "_ANY"
                 \/ \E v \in ConstantTexts : opts[2 * k] = DimSymbol[k] \o "=" \o v
              /\ opts[2 * k] = DimSymbol[k] \o "_ANY" <=> DimValue(args)[k] = "any"

\* C8 witness: a filter with both kinds of dimension, compiled
C8_Witness ==
    /\ pc = "poll"
    /\ args.l3proto = "any" /\ args.l4proto = "TCP"
    /\ args.saddr4 # "any" /\ args.daddr4 = "any"
    /\ args.saddr6 = "any" /\ args.daddr6 # "any"
    /\ args.sport = "1234" /\ args.dport = "any"

C9_Step ==
    /\ cycle' = cycle + 1 =>
          /\ flows' = flows
          /\ Len(rendered') = Len(flows)
          /\ \A i \in DOMAIN flows :
                /\ rendered'[i].proto = flows[i].key.l4_protocol
                /\ rendered'[i].events = flows[i].val
          /\ \A k \in DOMAIN observed :
                \E i \in DOMAIN rendered' :
                    /\ flows[i].key = observed[k].flow
                    /\ observed[k].name \in Range(rendered'[i].events)
    /\ \A i \in DOMAIN flows : \E j \in DOMAIN flows' : flows'[j].key = flows[i].key

\* C9: each return of the poll is followed by one printed row per flow of
\* the table, with every record handled so far in it; printing leaves the
\* table as it is and no flow ever leaves the table.
C9_RenderAll == [][C9_Step]_vars

\* C9 witness: a second pass that prints two flows
C9_Witness ==
    /\ cycle = 2
    /\ Len(flows) = 2
    /\ Len(rendered) = 2
    /\ nHandled = 3

\* C10: the event id of every stub, stored in the one-byte event_id field,
\* is the id of no other stub and resolves to the stub's own function.
C10_WireIdResolves ==
    /\ \A i, j \in DOMAIN probes.stubs :
          c_uint8(probes.stubs[i].event_data[1]) = c_uint8(probes.stubs[j].event_data[1])
            => i = j
    /\ (fired > 0 /\ raised = "none" /\ observed # <<>>) =>
          observed[Len(observed)].name = Flatten(functions)[fired].name

====
